---- MODULE Spec2Model ----
(***************************************************************************)
(* State-machine model of the spatial-omics dataset adapters               *)
(* (src/src/core/*.py), of the format resolver                             *)
(* (src/src/core/data_factory.py) and of the raster primitives             *)
(* (src/src/processors/image_processor.py).                                *)
(*                                                                         *)
(* Exceptions are modelled functionally: every method operator returns a   *)
(* record whose `raised` field names the exception that left the method    *)
(* ("none" when it returned normally).                                     *)
(***************************************************************************)
EXTENDS Integers, Sequences, FiniteSets, TLC

VARIABLES
    variant,    \* class of the dataset instance under construction / in use
    tifffile,   \* the module-level `tifffile` import succeeded (else it is None)
    disk,       \* the files the adapter reads: primary container and companions
    pc,         \* "new" (not constructed), "ready" (constructed), "failed" (__init__ raised)
    obj,        \* the fields of the dataset instance
    last,       \* what the last call did: return value, exception, warnings, reads
    target,     \* resolver: the path handed to the resolver and what is on disk there
    created,    \* resolver: outcome of the last create_spatial_data call
    detected,   \* resolver: outcome of the last detect_modality call
    input,      \* image processor: the arguments of the call
    output,     \* image processor: what the call returned
    session,    \* st.session_state: the keys present and their values
    DEFAULT_PARAMETERS,  \* the nested dictionaries of the module-level defaults
    loaders,    \* the `config` dictionary of each ConfigLoader instance
    called      \* session and configuration: the last call and what it raised

vars ==
    <<variant, tifffile, disk, pc, obj, last, target, created, detected, input, output,
      session, DEFAULT_PARAMETERS, loaders, called>>
dsVars == <<variant, tifffile, disk, pc, obj, last>>
rsVars == <<target, created, detected>>
ipVars == <<input, output>>
appVars == <<session, DEFAULT_PARAMETERS, loaders, called>>

(***************************************************************************)
(* Bounds of the model.                                                    *)
(***************************************************************************)
NumPages == 2      \* pages of a parseable primary container: channels 0..NumPages-1
MaxRows == 2       \* rows of the cell-boundary table
MaxFiles == 2      \* entries of a directory listing seen by the resolver

Channels == 0..NumPages          \* channel NumPages is out of range
Variants == {"visium", "xenium", "phenocycler", "ometiff"}

(***************************************************************************)
(* Values.                                                                 *)
(***************************************************************************)
NoRet == [kind |-> "None", method |-> "none", channel |-> 0, thr |-> "none", filled |-> {}]
Plane(c) == [kind |-> "plane", method |-> "none", channel |-> c, thr |-> "none", filled |-> {}]
Mask(m, c, t, f) == [kind |-> "mask", method |-> m, channel |-> c, thr |-> t, filled |-> f]

NoTable == [isNone |-> TRUE, rows |-> <<>>]
Table(rows) == [isNone |-> FALSE, rows |-> rows]

RowKinds == {"valid", "nonlist", "nonnumeric", "empty"}
RECURSIVE SeqsUpTo(_, _)
SeqsUpTo(S, n) ==
    IF n = 0 THEN {<<>>}
    ELSE LET shorter == SeqsUpTo(S, n - 1)
         IN shorter \cup {Append(s, x) : s \in {t \in shorter : Len(t) = n - 1}, x \in S}

\* a channel name: the text of an element, f"Channel_{i}", f"Biomarker_{i}", or None
Text(t) == [base |-> t, idx |-> 0]
Channel_(i) == [base |-> "Channel", idx |-> i]
Biomarker_(i) == [base |-> "Biomarker", idx |-> i]
NoneText == [base |-> "None", idx |-> 0]

\* a float kept as an exact quotient
Ratio(n, d) == [num |-> n, den |-> d]
One == Ratio(1, 1)
IsPositive(r) == r.num * r.den > 0
IsOne(r) == r.den # 0 /\ r.num = r.den

MicronsPerInch == 25400
NmPerMicron == 1000

\* the description of one page: none, text that is not XML, or a document whose
\* name element is missing (<<>>) or present, and whose Resolution_nm element is
\* missing, not a number, or a number
NoElem == [kind |-> "absent", value |-> 0]
BadElem == [kind |-> "malformed", value |-> 0]
NumElem(v) == [kind |-> "number", value |-> v]
NoDescription == [xml |-> "absent", name |-> <<>>, res |-> NoElem]
NotXml == [xml |-> "unparsable", name |-> <<>>, res |-> NoElem]
Document(name, res) == [xml |-> "parsed", name |-> name, res |-> res]

NameElems == {<<>>, <<Text("DAPI")>>, <<NoneText>>, <<Channel_(1)>>}
ResElems == {NoElem, BadElem, NumElem(-500), NumElem(0), NumElem(500)}
TagValues == {<<>>, <<0>>, <<2>>}          \* numerator of an X/YResolution tag, <<>> if no tag
PlainPages == {NoDescription, NotXml} \cup {Document(n, NoElem) : n \in NameElems}
ScanPages == {NoDescription, NotXml} \cup {Document(n, r) : n \in NameElems, r \in ResElems}
DefaultPages == [i \in 1..NumPages |-> NoDescription]

\* spatial/scalefactors_json.json: missing, not JSON, or a map with or without the key
NoScale == [file |-> "absent", value |-> 0]
ScaleFiles ==
    {NoScale, [file |-> "invalid", value |-> 0], [file |-> "nokey", value |-> 0]}
        \cup {[file |-> "ok", value |-> v] : v \in {-2, 0, 2}}

\* a nested value held under a metadata key
Nested == {"absent", "loaded", "edited"}

PrimaryStatus == {"absent", "ok", "corrupt"}
TableStatus == {"absent", "ok", "fail"}
PanelStatus == {"absent", "ok", "bad_targets", "fail"}
MetricsStatus == {"absent", "ok", "empty", "fail"}

(***************************************************************************)
(* SpatialData.__init__ and the subclass field defaults.                   *)
(***************************************************************************)
SpatialData_init(modality) ==
    [ modality |-> modality,
      metadata_tier |-> 0,            \* metadata['tier'], 0 while the key is unset
      image_cache |-> FALSE,          \* _image_cache is not None
      mask_cache |-> NoRet,           \* _mask_cache
      channel_data |-> {},            \* keys of _channel_data
      tier |-> 1,
      has_cells |-> FALSE,
      has_boundaries |-> FALSE,
      has_transcripts |-> FALSE,
      has_gene_panel |-> FALSE,
      has_metrics |-> FALSE,
      cells_data |-> FALSE,           \* _cells_data is not None
      cell_boundaries |-> NoTable,    \* _cell_boundaries
      nucleus_boundaries |-> FALSE,   \* _nucleus_boundaries is not None
      transcripts_data |-> FALSE,     \* _transcripts_data is not None
      gene_panel |-> FALSE,           \* _gene_panel is not None
      metrics |-> FALSE,              \* _metrics is not None
      resolution |-> One,
      channels |-> <<>>,
      num_channels |-> <<>>,          \* metadata['num_channels'], <<>> while the key is unset
      genes |-> "absent",             \* metadata['genes']
      scalefactors |-> "absent",      \* metadata['scalefactors']
      metrics_row |-> "absent" ]      \* metadata['metrics'], the object _metrics names

Ok(o) == [obj |-> o, raised |-> "none", warnings |-> {}]
Raise(o, e) == [obj |-> o, raised |-> e, warnings |-> {}]

(***************************************************************************)
(* XeniumData: construction.                                               *)
(* `pd` is never None in a program that imported XeniumData: the accessor  *)
(* signatures evaluate pd.DataFrame when the class body runs.  A parquet   *)
(* or csv reader that raises is the companion status "fail".               *)
(***************************************************************************)
\* resolution from the X/YResolution tags of page 0: 25400.0 / value[0], the Y tag
\* read last; a zero numerator raises ZeroDivisionError where it is read
TagResolution(res, d) ==
    IF d.xres = <<0>> THEN [resolution |-> res, raised |-> TRUE]
    ELSE LET rx == IF d.xres = <<>> THEN res ELSE Ratio(MicronsPerInch, d.xres[1])
         IN IF d.yres = <<0>> THEN [resolution |-> rx, raised |-> TRUE]
            ELSE IF d.yres = <<>> THEN [resolution |-> rx, raised |-> FALSE]
            ELSE [resolution |-> Ratio(MicronsPerInch, d.yres[1]), raised |-> FALSE]

\* the name appended for page i: the text of the first Name element, else Channel_<i>
ChannelName(p, i) ==
    IF p.xml = "parsed" /\ p.name # <<>> THEN p.name[1] ELSE Channel_(i)

ChannelNames(pages) == [k \in 1..Len(pages) |-> ChannelName(pages[k], k - 1)]

\* the body of the `with TiffFile` block shared by the Xenium and OME-TIFF adapters:
\* [obj, raised] where raised tells that an exception left the block
ReadTiffPages(o, d) ==
    IF Len(d.pages) = 0 THEN [obj |-> o, raised |-> FALSE]
    ELSE LET o1 == [o EXCEPT !.num_channels = <<Len(d.pages)>>]
             t == TagResolution(o1.resolution, d)
             o2 == [o1 EXCEPT !.resolution = t.resolution]
         IN IF t.raised THEN [obj |-> o2, raised |-> TRUE]
            ELSE [obj |-> [o2 EXCEPT !.channels = ChannelNames(d.pages)], raised |-> FALSE]

XeniumData_load_metadata(o, d, tf) ==
    IF ~tf THEN Raise(o, "ImportError")
    ELSE IF d.primary = "absent" THEN Raise(o, "FileNotFoundError")
    ELSE IF d.primary = "corrupt" THEN Raise(o, "ValueError")
    ELSE LET r == ReadTiffPages(o, d)
         IN IF r.raised THEN Raise(r.obj, "ValueError") ELSE Ok(r.obj)

\* _load_cells_data inside its try block: [obj, ok]
XeniumData_load_cells_data(o, d) ==
    IF d.cells = "ok" THEN [obj |-> [o EXCEPT !.cells_data = TRUE], ok |-> TRUE]
    ELSE [obj |-> o, ok |-> FALSE]

\* _load_boundaries_data: the cell table is assigned before the nucleus table is read
XeniumData_load_boundaries_data(o, d) ==
    IF d.boundaries # "ok" THEN [obj |-> o, ok |-> FALSE]
    ELSE LET o1 == [o EXCEPT !.cell_boundaries = Table(d.rows)]
         IN IF d.nucleus = "absent" THEN [obj |-> o1, ok |-> TRUE]
            ELSE IF d.nucleus = "ok"
                 THEN [obj |-> [o1 EXCEPT !.nucleus_boundaries = TRUE], ok |-> TRUE]
                 ELSE [obj |-> o1, ok |-> FALSE]

XeniumData_load_transcripts_data(o, d) ==
    IF d.transcripts = "ok" THEN [obj |-> [o EXCEPT !.transcripts_data = TRUE], ok |-> TRUE]
    ELSE [obj |-> o, ok |-> FALSE]

\* _load_gene_panel with the flag following the assignment of _gene_panel
XeniumData_load_gene_panel_FlagOnAssign(o, d) ==
    IF d.panel = "ok"
    THEN [obj |-> [o EXCEPT !.gene_panel = TRUE, !.genes = "loaded"], ok |-> TRUE]
    ELSE IF d.panel = "bad_targets" THEN [obj |-> [o EXCEPT !.gene_panel = TRUE], ok |-> TRUE]
    ELSE [obj |-> o, ok |-> FALSE]

\* _load_gene_panel: _gene_panel is assigned before the targets are walked, and
\* metadata['genes'] after them
XeniumData_load_gene_panel(o, d) ==
    IF d.panel = "ok"
    THEN [obj |-> [o EXCEPT !.gene_panel = TRUE, !.genes = "loaded"], ok |-> TRUE]
    ELSE IF d.panel = "bad_targets" THEN [obj |-> [o EXCEPT !.gene_panel = TRUE], ok |-> FALSE]
    ELSE [obj |-> o, ok |-> FALSE]

\* _load_metrics: a table with no rows loads without error and leaves _metrics None
XeniumData_load_metrics(o, d) ==
    IF d.metrics = "ok"
    THEN [obj |-> [o EXCEPT !.metrics = TRUE, !.metrics_row = "loaded"], ok |-> TRUE]
    ELSE IF d.metrics = "empty" THEN [obj |-> o, ok |-> TRUE]
    ELSE [obj |-> o, ok |-> FALSE]

\* a tier decision that forgets the transcript flag
TierOf_WithoutTranscripts(hc, hb, ht) == IF hc /\ hb THEN 2 ELSE 1

\* The tier decision at the end of _detect_tier
TierOf(hc, hb, ht) == IF hc /\ hb /\ ht THEN 2 ELSE 1

XeniumData_detect_tier(o, d) ==
    LET c == IF d.cells # "absent" THEN XeniumData_load_cells_data(o, d)
             ELSE [obj |-> o, ok |-> FALSE]
        b == IF d.boundaries # "absent" THEN XeniumData_load_boundaries_data(c.obj, d)
             ELSE [obj |-> c.obj, ok |-> FALSE]
        t == IF d.transcripts # "absent" THEN XeniumData_load_transcripts_data(b.obj, d)
             ELSE [obj |-> b.obj, ok |-> FALSE]
        g == IF d.panel # "absent" THEN XeniumData_load_gene_panel(t.obj, d)
             ELSE [obj |-> t.obj, ok |-> FALSE]
        m == IF d.metrics # "absent" THEN XeniumData_load_metrics(g.obj, d)
             ELSE [obj |-> g.obj, ok |-> FALSE]
        tr == TierOf(c.ok, b.ok, t.ok)
        w == {k \in {"cells", "boundaries", "transcripts", "gene_panel", "metrics"} :
                 \/ k = "cells" /\ d.cells # "absent" /\ ~c.ok
                 \/ k = "boundaries" /\ d.boundaries # "absent" /\ ~b.ok
                 \/ k = "transcripts" /\ d.transcripts # "absent" /\ ~t.ok
                 \/ k = "gene_panel" /\ d.panel # "absent" /\ ~g.ok
                 \/ k = "metrics" /\ d.metrics # "absent" /\ ~m.ok}
    IN [ obj |-> [m.obj EXCEPT !.has_cells = c.ok,
                               !.has_boundaries = b.ok,
                               !.has_transcripts = t.ok,
                               !.has_gene_panel = g.ok,
                               !.has_metrics = m.ok,
                               !.tier = tr,
                               !.metadata_tier = tr],
         raised |-> "none",
         warnings |-> w ]

XeniumData_init(d, tf) ==
    LET m == XeniumData_load_metadata(SpatialData_init("xenium"), d, tf)
    IN IF m.raised # "none" THEN m ELSE XeniumData_detect_tier(m.obj, d)

(***************************************************************************)
(* OMETiffData, PhenoCyclerData, VisiumData: construction.                 *)
(***************************************************************************)
\* ImportError leaves; every failure of TiffFile is caught and printed
\* every exception of the block is printed and swallowed: what was assigned stays
OMETiffData_load_metadata(o, d, tf) ==
    IF ~tf THEN Raise(o, "ImportError")
    ELSE IF d.primary # "ok" THEN [obj |-> o, raised |-> "none", warnings |-> {"printed"}]
    ELSE LET r == ReadTiffPages(o, d)
         IN IF r.raised THEN [obj |-> r.obj, raised |-> "none", warnings |-> {"printed"}]
            ELSE Ok(r.obj)

OMETiffData_init(d, tf) == OMETiffData_load_metadata(SpatialData_init("ometiff"), d, tf)

\* one turn of the page loop on page i (from 0): the biomarker is appended before
\* Resolution_nm is converted, and the handler of the page appends a placeholder
ReadScanPage(o, p, i) ==
    IF p.xml # "parsed" THEN [o EXCEPT !.channels = Append(@, Biomarker_(i))]
    ELSE LET o1 == [o EXCEPT !.channels =
                         Append(@, IF p.name # <<>> THEN p.name[1] ELSE Biomarker_(i))]
         IN IF i # 0 \/ p.res.kind = "absent" THEN o1
            ELSE IF p.res.kind = "number"
                 THEN [o1 EXCEPT !.resolution = Ratio(p.res.value, NmPerMicron)]
                 ELSE [o1 EXCEPT !.channels = Append(@, Biomarker_(i))]

RECURSIVE ReadScanPages(_, _, _)
ReadScanPages(o, pages, k) ==
    IF k > Len(pages) THEN o
    ELSE ReadScanPages(ReadScanPage(o, pages[k], k - 1), pages, k + 1)

PhenoCyclerData_load_metadata(o, d, tf) ==
    IF ~tf THEN Raise(o, "ImportError")
    ELSE IF d.primary # "ok" THEN [obj |-> o, raised |-> "none", warnings |-> {"printed"}]
    ELSE IF Len(d.pages) = 0 THEN Ok(o)
    ELSE Ok(ReadScanPages([o EXCEPT !.num_channels = <<Len(d.pages)>>], d.pages, 1))

PhenoCyclerData_init(d, tf) ==
    PhenoCyclerData_load_metadata(SpatialData_init("phenocycler"), d, tf)

\* reads only the spatial/ documents, never the image: resolution is
\* 1.0 / tissue_hires_scalef, and any exception is printed and swallowed
VisiumData_load_metadata(o, d) ==
    IF d.scale.file = "absent" THEN Ok(o)
    ELSE IF d.scale.file = "invalid"
         THEN [obj |-> o, raised |-> "none", warnings |-> {"printed"}]
    ELSE LET o1 == [o EXCEPT !.scalefactors = "loaded"]
         IN IF d.scale.file = "nokey" THEN Ok(o1)
            ELSE IF d.scale.value = 0
                 THEN [obj |-> o1, raised |-> "none", warnings |-> {"printed"}]
                 ELSE Ok([o1 EXCEPT !.resolution = Ratio(1, d.scale.value)])

VisiumData_init(d) == VisiumData_load_metadata(SpatialData_init("visium"), d)

DatasetInit(v, d, tf) ==
    CASE v = "xenium" -> XeniumData_init(d, tf)
      [] v = "ometiff" -> OMETiffData_init(d, tf)
      [] v = "phenocycler" -> PhenoCyclerData_init(d, tf)
      [] v = "visium" -> VisiumData_init(d)

(***************************************************************************)
(* Keyword arguments.  An absent key is <<>>, a given one is <<value>>.    *)
(***************************************************************************)
Methods == {"auto", "intensity", "polygon", "contour"}
MethodArgs == {<<>>} \cup {<<m>> : m \in Methods}
ChannelArgs == {<<>>} \cup {<<c>> : c \in Channels}
ThresholdArgs == {<<>>, <<"fixed">>}
Kwargs == [method : MethodArgs, channel : ChannelArgs, threshold : ThresholdArgs]
NoKwargs == [method |-> <<>>, channel |-> <<>>, threshold |-> <<>>]

\* kwargs.get(key, default)
KwGet(arg, default) == IF arg = <<>> THEN default ELSE arg[1]

Call(o, e, r, rd) ==
    [obj |-> o, raised |-> e, ret |-> r, read |-> rd,
     warnings |-> {}, polygon |-> FALSE, intensity |-> FALSE]

(***************************************************************************)
(* load_image and clear_cache.                                             *)
(***************************************************************************)
XeniumData_load_image(o, d, tf, carg) ==
    LET c == KwGet(carg, 0)
    IN IF ~tf THEN Call(o, "ImportError", NoRet, FALSE)
       ELSE IF c \in o.channel_data THEN Call(o, "none", Plane(c), FALSE)
       ELSE IF d.primary = "absent" THEN Call(o, "FileNotFoundError", NoRet, FALSE)
       ELSE IF d.primary = "corrupt" \/ c >= Len(d.pages) THEN Call(o, "ValueError", NoRet, TRUE)
       ELSE Call([o EXCEPT !.channel_data = @ \cup {c}], "none", Plane(c), TRUE)

OMETiffData_load_image(o, d, tf, carg) ==
    LET c == KwGet(carg, 0)
    IN IF ~tf THEN Call(o, "ImportError", NoRet, FALSE)
       ELSE IF c \in o.channel_data THEN Call(o, "none", Plane(c), FALSE)
       ELSE IF d.primary = "absent" THEN Call(o, "FileNotFoundError", NoRet, FALSE)
       ELSE IF d.primary = "corrupt" \/ c >= Len(d.pages) THEN Call(o, "ValueError", NoRet, TRUE)
       ELSE Call([o EXCEPT !.channel_data = @ \cup {c}], "none", Plane(c), TRUE)

PhenoCyclerData_load_image(o, d, tf, carg) ==
    LET c == KwGet(carg, 0)
    IN IF ~tf THEN Call(o, "ImportError", NoRet, FALSE)
       ELSE IF c \in o.channel_data THEN Call(o, "none", Plane(c), FALSE)
       ELSE IF d.primary = "absent" THEN Call(o, "FileNotFoundError", NoRet, FALSE)
       ELSE IF d.primary = "corrupt" \/ c >= Len(d.pages) THEN Call(o, "ValueError", NoRet, TRUE)
       ELSE Call([o EXCEPT !.channel_data = @ \cup {c}], "none", Plane(c), TRUE)

\* the channel argument is ignored; cv2.imread returns None for an undecodable file
VisiumData_load_image(o, d, carg) ==
    IF o.image_cache THEN Call(o, "none", Plane(0), FALSE)
    ELSE IF d.primary = "absent" THEN Call(o, "FileNotFoundError", NoRet, FALSE)
    ELSE IF d.primary = "corrupt" THEN Call(o, "ValueError", NoRet, TRUE)
    ELSE Call([o EXCEPT !.image_cache = TRUE], "none", Plane(0), TRUE)

SpatialData_clear_cache(o) == [o EXCEPT !.image_cache = FALSE, !.mask_cache = NoRet]

(***************************************************************************)
(* generate_mask.                                                          *)
(***************************************************************************)
ThresholdMode(kw) == IF kw.threshold = <<>> THEN "otsu" ELSE "fixed"

XeniumData_generate_intensity_mask(o, d, tf, kw) ==
    LET c == KwGet(kw.channel, 0)
        li == XeniumData_load_image(o, d, tf, <<c>>)
    IN [ li EXCEPT !.intensity = TRUE,
                   !.ret = IF li.raised = "none"
                           THEN Mask("intensity", c, ThresholdMode(kw), {})
                           ELSE NoRet ]

\* the loop with the try block around each row instead of around the loop
DrawPolygons_PerRowTry(rows, i, filled) ==
    [raised |-> FALSE, filled |-> filled \cup {j \in i..Len(rows) : rows[j] = "valid"}]

\* the loop of _generate_polygon_mask inside its try block: rows i..Len(rows)
RECURSIVE DrawPolygons(_, _, _)
DrawPolygons(rows, i, filled) ==
    IF i > Len(rows) THEN [raised |-> FALSE, filled |-> filled]
    ELSE IF rows[i] = "nonlist" THEN DrawPolygons(rows, i + 1, filled)
    ELSE IF rows[i] = "valid" THEN DrawPolygons(rows, i + 1, filled \cup {i})
    ELSE [raised |-> TRUE, filled |-> filled]

XeniumData_generate_polygon_mask(o, d, tf, kw) ==
    IF ~o.has_boundaries \/ o.cell_boundaries.isNone
    THEN LET im == XeniumData_generate_intensity_mask(o, d, tf, kw)
         IN [im EXCEPT !.polygon = TRUE, !.warnings = @ \cup {"boundaries_unavailable"}]
    ELSE LET li == XeniumData_load_image(o, d, tf, <<0>>)
         IN IF li.raised # "none" THEN [li EXCEPT !.polygon = TRUE]
            ELSE LET dr == DrawPolygons(o.cell_boundaries.rows, 1, {})
                 IN IF dr.raised
                    THEN LET im == XeniumData_generate_intensity_mask(li.obj, d, tf, kw)
                         IN [im EXCEPT !.polygon = TRUE,
                                       !.read = li.read \/ im.read,
                                       !.warnings = @ \cup {"polygon_error"}]
                    ELSE [li EXCEPT !.polygon = TRUE,
                                    !.ret = Mask("polygon", 0, "none", dr.filled)]

\* an 'auto' policy that never picks the polygon rasterizer
SelectMethod_AutoIsIntensity(o, kw) ==
    LET method == KwGet(kw.method, "auto")
    IN IF method = "auto" THEN "intensity" ELSE method

\* the 'auto' policy of generate_mask
SelectMethod(o, kw) ==
    LET method == KwGet(kw.method, "auto")
    IN IF method = "auto"
       THEN (IF o.tier = 2 /\ o.has_boundaries THEN "polygon" ELSE "intensity")
       ELSE method

\* the guard in front of _generate_polygon_mask
UsePolygon(o, method) == method = "polygon" /\ o.tier = 2 /\ o.has_boundaries

XeniumData_generate_mask(o, d, tf, kw) ==
    IF UsePolygon(o, SelectMethod(o, kw))
    THEN XeniumData_generate_polygon_mask(o, d, tf, kw)
    ELSE XeniumData_generate_intensity_mask(o, d, tf, kw)

OMETiffData_generate_mask(o, d, tf, kw) ==
    LET c == KwGet(kw.channel, 0)
        li == OMETiffData_load_image(o, d, tf, <<c>>)
    IN [ li EXCEPT !.intensity = TRUE,
                   !.ret = IF li.raised = "none"
                           THEN Mask("intensity", c, ThresholdMode(kw), {})
                           ELSE NoRet ]

PhenoCyclerData_generate_mask(o, d, tf, kw) ==
    LET c == KwGet(kw.channel, 0)
        li == PhenoCyclerData_load_image(o, d, tf, <<c>>)
    IN [ li EXCEPT !.intensity = TRUE,
                   !.ret = IF li.raised = "none"
                           THEN Mask("intensity", c, ThresholdMode(kw), {})
                           ELSE NoRet ]

\* fixed threshold (default 10), then filled contours
VisiumData_generate_mask(o, d, kw) ==
    LET li == VisiumData_load_image(o, d, <<>>)
    IN [ li EXCEPT !.ret = IF li.raised = "none"
                           THEN Mask("contour", 0, "fixed", {})
                           ELSE NoRet ]

(***************************************************************************)
(* The read-only calls.                                                    *)
(***************************************************************************)
NoInfo ==
    [tier |-> 0, has_cells |-> FALSE, has_boundaries |-> FALSE, has_transcripts |-> FALSE,
     has_gene_panel |-> FALSE, has_metrics |-> FALSE]

\* a tier report that repeats the panel flag under the metrics key
XeniumData_get_tier_info_PanelForMetrics(o) ==
    [tier |-> o.tier, has_cells |-> o.has_cells, has_boundaries |-> o.has_boundaries,
     has_transcripts |-> o.has_transcripts, has_gene_panel |-> o.has_gene_panel,
     has_metrics |-> o.has_gene_panel]

XeniumData_get_tier_info(o) ==
    [tier |-> o.tier, has_cells |-> o.has_cells, has_boundaries |-> o.has_boundaries,
     has_transcripts |-> o.has_transcripts, has_gene_panel |-> o.has_gene_panel,
     has_metrics |-> o.has_metrics]

\* what a caller holds after get_metadata: the keys of the map, each nested value
\* being the very object the dataset's map holds under that key
NoMeta ==
    [tier |-> 0, num_channels |-> <<>>, genes |-> "absent", scalefactors |-> "absent",
     metrics |-> "absent", biomarkers |-> <<>>]

\* self.metadata.copy(): a new map over the same values
Metadata_copy(o) ==
    [tier |-> o.metadata_tier, num_channels |-> o.num_channels, genes |-> o.genes,
     scalefactors |-> o.scalefactors, metrics |-> o.metrics_row, biomarkers |-> <<>>]

XeniumData_get_metadata(o) == Metadata_copy(o)
OMETiffData_get_metadata(o) == Metadata_copy(o)
VisiumData_get_metadata(o) == Metadata_copy(o)
\* adds a copy of the channel list under 'biomarkers'
PhenoCyclerData_get_metadata(o) == [Metadata_copy(o) EXCEPT !.biomarkers = o.channels]

GetMetadataOf(v, o) ==
    CASE v = "xenium" -> XeniumData_get_metadata(o)
      [] v = "ometiff" -> OMETiffData_get_metadata(o)
      [] v = "phenocycler" -> PhenoCyclerData_get_metadata(o)
      [] v = "visium" -> VisiumData_get_metadata(o)

get_resolution(o) == o.resolution

\* the three TIFF adapters return a copy of self.channels, Visium the literal ["H&E"]
get_channels(v, o) == IF v = "visium" THEN <<Text("H&E")>> ELSE o.channels

\* is_valid of validate(): the path and the image exist and tifffile is importable
XeniumData_validate(o, d, tf) == d.primary # "absent" /\ tf
SpatialData_validate(o, d) == d.primary # "absent"
ValidateOf(v, o, d, tf) ==
    IF v = "xenium" THEN XeniumData_validate(o, d, tf) ELSE SpatialData_validate(o, d)

\* the companion accessors: a copy of the held value, or None
Copy(kind) == [NoRet EXCEPT !.kind = kind]
XeniumData_get_cells_data(o) == IF o.cells_data THEN Copy("table") ELSE NoRet
XeniumData_get_cell_boundaries(o) ==
    IF ~o.cell_boundaries.isNone THEN Copy("table") ELSE NoRet
XeniumData_get_nucleus_boundaries(o) == IF o.nucleus_boundaries THEN Copy("table") ELSE NoRet
XeniumData_get_transcripts(o) == IF o.transcripts_data THEN Copy("table") ELSE NoRet
XeniumData_get_gene_panel(o) == IF o.gene_panel THEN Copy("dict") ELSE NoRet
XeniumData_get_genes(o) == IF o.genes # "absent" THEN Copy("list") ELSE NoRet
XeniumData_get_metrics(o) == IF o.metrics THEN Copy("dict") ELSE NoRet

Accessors ==
    {"get_cells_data", "get_cell_boundaries", "get_nucleus_boundaries", "get_transcripts",
     "get_gene_panel", "get_genes", "get_metrics"}

AccessorOf(a, o) ==
    CASE a = "get_cells_data" -> XeniumData_get_cells_data(o)
      [] a = "get_cell_boundaries" -> XeniumData_get_cell_boundaries(o)
      [] a = "get_nucleus_boundaries" -> XeniumData_get_nucleus_boundaries(o)
      [] a = "get_transcripts" -> XeniumData_get_transcripts(o)
      [] a = "get_gene_panel" -> XeniumData_get_gene_panel(o)
      [] a = "get_genes" -> XeniumData_get_genes(o)
      [] a = "get_metrics" -> XeniumData_get_metrics(o)

\* a caller changing the map it was handed.  A top-level key lives in the caller's
\* map alone; a nested value is changed in place, so every map holding it sees it;
\* the biomarker list was copied for the caller.
TopKeys == {"num_channels"}
NestedKeys == {"genes", "scalefactors", "metrics"}
ListKeys == {"biomarkers"}
EditKeys == TopKeys \cup NestedKeys \cup ListKeys
EditSnapshot(o, snap, key) ==
    CASE key = "num_channels" ->
            [obj |-> o, snap |-> [snap EXCEPT !.num_channels = <<0>>]]
      [] key = "biomarkers" ->
            [obj |-> o, snap |-> [snap EXCEPT !.biomarkers = <<>>]]
      [] key = "genes" ->
            [obj |-> [o EXCEPT !.genes = "edited"], snap |-> [snap EXCEPT !.genes = "edited"]]
      [] key = "scalefactors" ->
            [obj |-> [o EXCEPT !.scalefactors = "edited"],
             snap |-> [snap EXCEPT !.scalefactors = "edited"]]
      [] key = "metrics" ->
            [obj |-> [o EXCEPT !.metrics_row = "edited"],
             snap |-> [snap EXCEPT !.metrics = "edited"]]

LoadImageOf(v, o, d, tf, carg) ==
    CASE v = "xenium" -> XeniumData_load_image(o, d, tf, carg)
      [] v = "ometiff" -> OMETiffData_load_image(o, d, tf, carg)
      [] v = "phenocycler" -> PhenoCyclerData_load_image(o, d, tf, carg)
      [] v = "visium" -> VisiumData_load_image(o, d, carg)

GenerateMaskOf(v, o, d, tf, kw) ==
    CASE v = "xenium" -> XeniumData_generate_mask(o, d, tf, kw)
      [] v = "ometiff" -> OMETiffData_generate_mask(o, d, tf, kw)
      [] v = "phenocycler" -> PhenoCyclerData_generate_mask(o, d, tf, kw)
      [] v = "visium" -> VisiumData_generate_mask(o, d, kw)

(***************************************************************************)
(* The dataset actions: one per public call.                               *)
(***************************************************************************)
Observed(op, kw, r) ==
    [op |-> op, args |-> kw, raised |-> r.raised, ret |-> r.ret, read |-> r.read,
     warnings |-> r.warnings, polygon |-> r.polygon, intensity |-> r.intensity,
     info |-> NoInfo, meta |-> NoMeta, names |-> <<>>, res |-> One, valid |-> <<>>]

NoCall == Observed("none", NoKwargs, Call(SpatialData_init("none"), "none", NoRet, FALSE))

Construct ==
    /\ pc = "new"
    /\ LET r == DatasetInit(variant, disk, tifffile)
       IN /\ pc' = IF r.raised = "none" THEN "ready" ELSE "failed"
          /\ obj' = r.obj
          /\ last' = [Observed("init", NoKwargs, Call(r.obj, r.raised, NoRet, FALSE))
                        EXCEPT !.warnings = r.warnings]
    /\ UNCHANGED <<variant, tifffile, disk, rsVars, ipVars, appVars>>

LoadImage(carg) ==
    /\ pc = "ready"
    /\ LET r == LoadImageOf(variant, obj, disk, tifffile, carg)
       IN /\ obj' = r.obj
          /\ last' = Observed("load_image", [NoKwargs EXCEPT !.channel = carg], r)
    /\ UNCHANGED <<variant, tifffile, disk, pc, rsVars, ipVars, appVars>>

ClearCache ==
    /\ pc = "ready"
    /\ obj' = SpatialData_clear_cache(obj)
    /\ last' = Observed("clear_cache", NoKwargs, Call(obj, "none", NoRet, FALSE))
    /\ UNCHANGED <<variant, tifffile, disk, pc, rsVars, ipVars, appVars>>

GenerateMask(kw) ==
    /\ pc = "ready"
    /\ LET r == GenerateMaskOf(variant, obj, disk, tifffile, kw)
       IN /\ obj' = r.obj
          /\ last' = Observed("generate_mask", kw, r)
    /\ UNCHANGED <<variant, tifffile, disk, pc, rsVars, ipVars, appVars>>

Returned(op) == Observed(op, NoKwargs, Call(obj, "none", NoRet, FALSE))

GetTierInfo ==
    /\ pc = "ready" /\ variant = "xenium"
    /\ last' = [Returned("get_tier_info") EXCEPT !.info = XeniumData_get_tier_info(obj)]
    /\ UNCHANGED <<variant, tifffile, disk, pc, obj, rsVars, ipVars, appVars>>

GetMetadata ==
    /\ pc = "ready"
    /\ last' = [Returned("get_metadata") EXCEPT !.meta = GetMetadataOf(variant, obj)]
    /\ UNCHANGED <<variant, tifffile, disk, pc, obj, rsVars, ipVars, appVars>>

GetResolution ==
    /\ pc = "ready"
    /\ last' = [Returned("get_resolution") EXCEPT !.res = get_resolution(obj)]
    /\ UNCHANGED <<variant, tifffile, disk, pc, obj, rsVars, ipVars, appVars>>

GetChannels ==
    /\ pc = "ready"
    /\ last' = [Returned("get_channels") EXCEPT !.names = get_channels(variant, obj)]
    /\ UNCHANGED <<variant, tifffile, disk, pc, obj, rsVars, ipVars, appVars>>

Validate ==
    /\ pc = "ready"
    /\ last' = [Returned("validate")
                  EXCEPT !.valid = <<ValidateOf(variant, obj, disk, tifffile)>>]
    /\ UNCHANGED <<variant, tifffile, disk, pc, obj, rsVars, ipVars, appVars>>

Accessor(a) ==
    /\ pc = "ready" /\ variant = "xenium"
    /\ last' = [Returned(a) EXCEPT !.ret = AccessorOf(a, obj)]
    /\ UNCHANGED <<variant, tifffile, disk, pc, obj, rsVars, ipVars, appVars>>

\* the caller of get_metadata changes one entry of the map it holds
CallerEdits(key) ==
    /\ pc = "ready"
    /\ last.op \in {"get_metadata", "edit"}
    /\ key \in NestedKeys => last.meta[key] # "absent"
    /\ LET r == EditSnapshot(obj, last.meta, key)
       IN /\ obj' = r.obj
          /\ last' = [Returned("edit") EXCEPT !.meta = r.snap]
    /\ UNCHANGED <<variant, tifffile, disk, pc, rsVars, ipVars, appVars>>

\* the environment: a companion file of the directory appears or disappears
CompanionFiles == {"cells", "boundaries", "transcripts", "panel", "metrics"}
DiskChange(f) ==
    /\ pc = "ready" /\ variant = "xenium"
    /\ disk' = [disk EXCEPT ![f] = IF @ = "absent" THEN "ok" ELSE "absent"]
    /\ UNCHANGED <<variant, tifffile, pc, obj, last, rsVars, ipVars, appVars>>

CacheNext ==
    \/ Construct
    \/ \E carg \in ChannelArgs : LoadImage(carg)
    \/ ClearCache

DatasetNext ==
    \/ CacheNext
    \/ \E kw \in Kwargs : GenerateMask(kw)

(***************************************************************************)
(* Format resolver (data_factory.py).                                      *)
(* A file name is its last extension (no dot, case kept) and whether       *)
(* ".ome" precedes it.  `listing` is the directory's entries in the order  *)
(* the operating system returns them (for a file: its siblings).           *)
(***************************************************************************)
Name(o, e) == [ome |-> o, ext |-> e]
DirNames ==
    { Name(FALSE, "qptiff"), Name(FALSE, "qptif"),
      Name(TRUE, "tiff"), Name(TRUE, "tif"),
      Name(FALSE, "tiff"), Name(FALSE, "tif"),
      Name(FALSE, "png"), Name(FALSE, "txt") }
FileNames ==
    DirNames \cup { Name(FALSE, "jpg"), Name(FALSE, "jpeg"), Name(FALSE, "TIF"), Name(FALSE, "") }

NoRepeat(s) == \A i, j \in 1..Len(s) : i # j => s[i] # s[j]
Listings == {s \in SeqsUpTo(DirNames, MaxFiles) : NoRepeat(s)}

\* str.lower() on the strings of the model
Lower(s) ==
    CASE s = "TIF" -> "tif"
      [] s = "Xenium" -> "xenium"
      [] OTHER -> s

\* Path.suffix
Suffix(n) == n.ext

\* Path.glob("*.<pattern>") on a case-sensitive file system, in listing order
Matches(n, pattern) ==
    CASE pattern = "ome.tiff" -> n.ome /\ n.ext = "tiff"
      [] pattern = "ome.tif" -> n.ome /\ n.ext = "tif"
      [] OTHER -> n.ext = pattern

Glob(listing, pattern) == SelectSeq(listing, LAMBDA n : Matches(n, pattern))

HintArgs ==
    { <<>>, <<"">>, <<"visium">>, <<"xenium">>, <<"phenocycler">>, <<"ometiff">>,
      <<"Xenium">>, <<"invalid">> }

NoOutcome == [kind |-> "none", variant |-> "none", arg |-> <<>>, error |-> "none", hint |-> <<>>]
\* `arg` is the path handed to the constructor: <<>> is data_path itself
Adapter(v, arg, hint) ==
    [kind |-> "adapter", variant |-> v, arg |-> arg, error |-> "none", hint |-> hint]
Modality(v) ==
    [kind |-> "modality", variant |-> v, arg |-> <<>>, error |-> "none", hint |-> <<>>]
Failure(e, hint) ==
    [kind |-> "error", variant |-> "none", arg |-> <<>>, error |-> e, hint |-> hint]

\* an explicit-modality branch that compares the hint as given
CreateByHint_CaseSensitive(h, hint) ==
    IF h \in {"visium", "xenium", "phenocycler", "ometiff"}
    THEN Adapter(h, <<>>, hint)
    ELSE Failure("ValueError", hint)

\* the explicit-modality branch of create_spatial_data
CreateByHint(h, hint) ==
    LET modality == Lower(h)
    IN IF modality \in {"visium", "xenium", "phenocycler", "ometiff"}
       THEN Adapter(modality, <<>>, hint)
       ELSE Failure("ValueError", hint)

\* the is_file() branch of create_spatial_data
CreateByExtension(t, hint) ==
    LET suffix == Lower(Suffix(t.name))
    IN IF suffix \in {"qptiff", "qptif"} THEN Adapter("phenocycler", <<>>, hint)
       ELSE IF suffix \in {"tiff", "tif", "ome.tiff", "ome.tif"} THEN Adapter("ometiff", <<>>, hint)
       ELSE IF suffix \in {"png", "jpg", "jpeg"} THEN Adapter("visium", <<>>, hint)
       ELSE Failure("ValueError", hint)

\* the is_dir() branch of create_spatial_data
CreateByDirectory(t, hint) ==
    IF t.spatial THEN Adapter("visium", <<>>, hint)
    ELSE LET tiff_files == Glob(t.listing, "ome.tiff") \o Glob(t.listing, "ome.tif")
                           \o Glob(t.listing, "tiff") \o Glob(t.listing, "tif")
             qptiff_files == Glob(t.listing, "qptiff") \o Glob(t.listing, "qptif")
         IN IF tiff_files # <<>>
            THEN IF qptiff_files # <<>>
                 THEN Adapter("phenocycler", <<qptiff_files[1]>>, hint)
                 ELSE Adapter("ometiff", <<tiff_files[1]>>, hint)
            ELSE Failure("ValueError", hint)

\* create_spatial_data with the hint examined before the existence of the path
create_spatial_data_HintFirst(t, hint) ==
    IF hint # <<>> /\ hint[1] # "" THEN CreateByHint(hint[1], hint)
    ELSE IF ~t.exists THEN Failure("FileNotFoundError", hint)
    ELSE IF t.kind = "file" THEN CreateByExtension(t, hint)
    ELSE IF t.kind = "dir" THEN CreateByDirectory(t, hint)
    ELSE Failure("ValueError", hint)

create_spatial_data(t, hint) ==
    IF ~t.exists THEN Failure("FileNotFoundError", hint)
    ELSE IF hint # <<>> /\ hint[1] # "" THEN CreateByHint(hint[1], hint)
    ELSE IF t.kind = "file" THEN CreateByExtension(t, hint)
    ELSE IF t.kind = "dir" THEN CreateByDirectory(t, hint)
    ELSE Failure("ValueError", hint)

\* an is_file() branch that looks for a sibling 'spatial' directory first
DetectByExtension_SpatialFirst(t) ==
    LET suffix == Lower(Suffix(t.name))
    IN IF t.spatial THEN "visium"
       ELSE IF suffix \in {"qptiff", "qptif"} THEN "phenocycler"
       ELSE IF suffix \in {"tiff", "tif", "ome.tiff", "ome.tif"} THEN "ometiff"
       ELSE IF suffix \in {"png", "jpg", "jpeg"} THEN "visium"
       ELSE "none"

\* the is_file() branch of detect_modality; "none" falls through to the final raise
DetectByExtension(t) ==
    LET suffix == Lower(Suffix(t.name))
    IN IF suffix \in {"qptiff", "qptif"} THEN "phenocycler"
       ELSE IF suffix \in {"tiff", "tif", "ome.tiff", "ome.tif"} THEN "ometiff"
       ELSE IF suffix \in {"png", "jpg", "jpeg"} THEN "visium"
       ELSE "none"

\* the is_dir() branch of detect_modality
DetectByDirectory(t) ==
    IF t.spatial THEN "visium"
    ELSE IF Glob(t.listing, "qptiff") \o Glob(t.listing, "qptif") # <<>> THEN "phenocycler"
    ELSE IF Glob(t.listing, "ome.tiff") \o Glob(t.listing, "ome.tif")
            \o Glob(t.listing, "tiff") \o Glob(t.listing, "tif") # <<>> THEN "ometiff"
    ELSE "none"

detect_modality(t) ==
    IF ~t.exists THEN Failure("FileNotFoundError", <<>>)
    ELSE LET m == IF t.kind = "file" THEN DetectByExtension(t)
                  ELSE IF t.kind = "dir" THEN DetectByDirectory(t)
                  ELSE "none"
         IN IF m = "none" THEN Failure("ValueError", <<>>) ELSE Modality(m)

\* the modality tags list_supported_formats advertises (the keys of its result)
list_supported_formats == {"visium", "xenium", "phenocycler", "ometiff"}

Targets ==
    { [exists |-> FALSE, kind |-> "none", name |-> Name(FALSE, ""), spatial |-> FALSE,
       listing |-> <<>>] }
    \cup { [exists |-> TRUE, kind |-> "special", name |-> Name(FALSE, ""), spatial |-> FALSE,
            listing |-> <<>>] }
    \cup { [exists |-> TRUE, kind |-> "file", name |-> n, spatial |-> sp, listing |-> l] :
             n \in FileNames, sp \in BOOLEAN, l \in Listings }
    \cup { [exists |-> TRUE, kind |-> "dir", name |-> Name(FALSE, ""), spatial |-> sp,
            listing |-> l] : sp \in BOOLEAN, l \in Listings }

CreateSpatialData(hint) ==
    /\ created' = create_spatial_data(target, hint)
    /\ UNCHANGED <<target, detected, dsVars, ipVars, appVars>>

DetectModality ==
    /\ detected' = detect_modality(target)
    /\ UNCHANGED <<target, created, dsVars, ipVars, appVars>>

ResolverNext ==
    \/ \E hint \in HintArgs : CreateSpatialData(hint)
    \/ DetectModality

(***************************************************************************)
(* ImageProcessor: iou and normalize.                                      *)
(***************************************************************************)
MaxArea == 3       \* pixels of a mask, and of an image handed to normalize

Midpoint == 127
Divisor16 == 256
Divisor32 == 65536
Uint8Values == 256

\* a two-dimensional array of 8-bit pixels: black, and the two values either side
\* of the binarization threshold
Pixels8 == {0, 127, 128}
Shapes == {s \in (1..MaxArea) \X (1..MaxArea) : s[1] * s[2] <= MaxArea}
Masks ==
    UNION { { [h |-> s[1], w |-> s[2], px |-> f] : f \in [(1..s[1]) \X (1..s[2]) -> Pixels8] } :
            s \in Shapes }
NoMask == [h |-> 0, w |-> 0, px |-> <<>>]

Min(a, b) == IF a < b THEN a ELSE b

\* iou with the midpoint itself counted as foreground
ImageProcessor_iou_MidpointIsForeground(mask1, mask2) ==
    LET h == Min(mask1.h, mask2.h)
        w == Min(mask1.w, mask2.w)
        m1_bin == {p \in (1..h) \X (1..w) : mask1.px[p] >= Midpoint}
        m2_bin == {p \in (1..h) \X (1..w) : mask2.px[p] >= Midpoint}
        intersection == Cardinality(m1_bin \cap m2_bin)
        union == Cardinality(m1_bin \cup m2_bin)
    IN IF union = 0 THEN Ratio(0, 1) ELSE Ratio(intersection, union)

ImageProcessor_iou(mask1, mask2) ==
    LET h == Min(mask1.h, mask2.h)
        w == Min(mask1.w, mask2.w)
        m1_bin == {p \in (1..h) \X (1..w) : mask1.px[p] > Midpoint}
        m2_bin == {p \in (1..h) \X (1..w) : mask2.px[p] > Midpoint}
        intersection == Cardinality(m1_bin \cap m2_bin)
        union == Cardinality(m1_bin \cup m2_bin)
    IN IF union = 0 THEN Ratio(0, 1) ELSE Ratio(intersection, union)

\* a pixel of up to 32 bits as its two 16-bit halves: value = hi * Divisor32 + lo
Pixel(hi, lo) == [hi |-> hi, lo |-> lo]
Halves == {0, 255, 256, Divisor32 - 1}
PixelsOf(dtype) ==
    CASE dtype = "uint8" -> {Pixel(0, v) : v \in {0, 255}}
      [] dtype = "uint16" -> {Pixel(0, v) : v \in Halves}
      [] dtype = "uint32" -> {Pixel(hi, lo) : hi \in Halves, lo \in {0, Divisor32 - 1}}
Dtypes == {"uint8", "uint16", "uint32"}
Images == UNION { { [dtype |-> t, pixels |-> p] : p \in SeqsUpTo(PixelsOf(t), MaxArea) \ {<<>>} } :
                  t \in Dtypes }
NoImage == [dtype |-> "none", pixels |-> <<>>]

\* astype(np.uint8) of a non-negative float: the fraction is dropped; a value above
\* 255 is outside what the C conversion defines, and a build either keeps the low
\* eight bits or saturates
Casts == {"wrap", "saturate"}
AsUint8(x, cast) ==
    IF x < Uint8Values THEN x
    ELSE IF cast = "wrap" THEN x % Uint8Values ELSE Uint8Values - 1

\* normalize(image, np.uint8) on the unsigned integer types; the quotient of a
\* 32-bit pixel by Divisor32 is its high half plus a fraction
ImageProcessor_normalize(image, cast) ==
    CASE image.dtype = "uint8" -> image
      [] image.dtype = "uint16" ->
            [dtype |-> "uint8",
             pixels |-> [k \in DOMAIN image.pixels |->
                            Pixel(0, AsUint8(image.pixels[k].lo \div Divisor16, cast))]]
      [] image.dtype = "uint32" ->
            [dtype |-> "uint8",
             pixels |-> [k \in DOMAIN image.pixels |->
                            Pixel(0, AsUint8(image.pixels[k].hi, cast))]]

(***************************************************************************)
(* CircleDetector: filter_circles_by_distance and get_circle_statistics.   *)
(***************************************************************************)
MaxCircles == 3    \* rows of the array of circles

Uint16Values == 65536

\* an (x, y, radius) row of np.uint16, as detect_circles returns them
Circle(x, y, r) == [x |-> x, y |-> y, r |-> r]
CirclePool ==
    {Circle(0, 0, 10), Circle(3, 0, 10), Circle(0, 4, 12), Circle(6, 0, 10),
     Circle(256, 0, 10)}
NoCircles == [isNone |-> TRUE, rows |-> <<>>]
Rows(rows) == [isNone |-> FALSE, rows |-> rows]
CircleArrays == {NoCircles} \cup {Rows(s) : s \in SeqsUpTo(CirclePool, MaxCircles)}
Distances == {0, 4, 6}

\* np.uint16 - np.uint16 is np.uint16
Sub16(a, b) == (a - b + Uint16Values) % Uint16Values

\* d ** 2 kept in 16 bits, by the two bytes of d
Sq16(d) ==
    LET a == d \div Uint8Values
        b == d % Uint8Values
    IN (2 * a * b * Uint8Values + b * b) % Uint16Values

\* np.sqrt((x1 - x2) ** 2 + (y1 - y2) ** 2) < min_distance.  The differences are
\* np.uint16; `** 2` with the Python integer 2 is a 64-bit integer under NumPy 1
\* ("promote") and stays np.uint16 under NumPy 2 ("weak").
Arithmetics == {"promote", "weak"}
TooClose(c1, c2, min_distance, arith) ==
    LET dx == Sub16(c1.x, c2.x)
        dy == Sub16(c1.y, c2.y)
    IN IF arith = "promote"
       THEN dx < min_distance /\ dy < min_distance
               /\ dx * dx + dy * dy < min_distance * min_distance
       ELSE (Sq16(dx) + Sq16(dy)) % Uint16Values < min_distance * min_distance

RECURSIVE FilterFrom(_, _, _, _, _)
FilterFrom(rows, i, filtered, min_distance, arith) ==
    IF i > Len(rows) THEN filtered
    ELSE LET is_valid == \A k \in DOMAIN filtered :
                             ~TooClose(rows[i], filtered[k], min_distance, arith)
         IN FilterFrom(rows, i + 1, IF is_valid THEN Append(filtered, rows[i]) ELSE filtered,
                       min_distance, arith)

CircleDetector_filter_circles_by_distance(circles, min_distance, arith) ==
    IF circles.isNone \/ Len(circles.rows) <= 1 THEN circles
    ELSE Rows(FilterFrom(circles.rows, 2, <<circles.rows[1]>>, min_distance, arith))

RECURSIVE SumRadii(_)
SumRadii(s) == IF s = <<>> THEN 0 ELSE Head(s).r + SumRadii(Tail(s))
RECURSIVE SumSquares(_)
SumSquares(s) == IF s = <<>> THEN 0 ELSE Head(s).r * Head(s).r + SumSquares(Tail(s))
RadiiOf(rows) == {rows[k].r : k \in DOMAIN rows}
Least(S) == CHOOSE v \in S : \A u \in S : v <= u
Greatest(S) == CHOOSE v \in S : \A u \in S : u <= v

\* the dictionary get_circle_statistics returns: its keys, and the value under each
\* (0 under a key it does not hold); the standard deviation is kept as its square
NoStats ==
    [keys |-> {}, count |-> 0, mean_radius |-> Ratio(0, 1), min_radius |-> 0,
     max_radius |-> 0, std_radius_squared |-> Ratio(0, 1)]

CircleDetector_get_circle_statistics(circles) ==
    IF circles.isNone \/ Len(circles.rows) = 0
    THEN [NoStats EXCEPT !.keys = {"count", "mean_radius", "min_radius", "max_radius"}]
    ELSE LET n == Len(circles.rows)
             total == SumRadii(circles.rows)
         IN [keys |-> {"count", "mean_radius", "min_radius", "max_radius", "std_radius"},
             count |-> n,
             mean_radius |-> Ratio(total, n),
             min_radius |-> Least(RadiiOf(circles.rows)),
             max_radius |-> Greatest(RadiiOf(circles.rows)),
             std_radius_squared |->
                 Ratio(n * SumSquares(circles.rows) - total * total, n * n)]

(***************************************************************************)
(* Shapes and thresholding modes through ImageProcessor and MaskGenerator. *)
(***************************************************************************)
MaxSide == 2       \* height and width of a raster

\* an array by its shape and element type: depth 1 is (h, w), depth 3 is (h, w, 3)
Raster(h, w, depth, dtype) == [h |-> h, w |-> w, depth |-> depth, dtype |-> dtype]
NoRaster == Raster(0, 0, 1, "none")
Rasters ==
    {Raster(h, w, c, t) : h \in 1..MaxSide, w \in 1..MaxSide, c \in {1, 3},
                          t \in {"uint8", "uint16"}}

\* what a step produced: the raster, the thresholding that made it, or an exception
NoThreshold == [mode |-> "none", value |-> 0]
Produced(r, thr) == [raised |-> "none", raster |-> r, threshold |-> thr]
Failed(e) == [raised |-> e, raster |-> NoRaster, threshold |-> NoThreshold]

\* cv2.cvtColor(image, COLOR_BGR2GRAY) when the array has three axes
Gray(image) == [image EXCEPT !.depth = 1]

\* binarize(image, threshold, method): Otsu and the adaptive threshold take 8-bit
\* input only; the result has the shape of the grey image
ImageProcessor_binarize(image, threshold, method) ==
    LET gray == Gray(image)
        binary == [gray EXCEPT !.dtype = "uint8"]
    IN IF method = "otsu"
       THEN IF gray.dtype # "uint8" THEN Failed("cv2.error")
            ELSE Produced(binary, [mode |-> "otsu", value |-> 0])
       ELSE IF method = "adaptive"
       THEN IF gray.dtype # "uint8" THEN Failed("cv2.error")
            ELSE Produced(binary, [mode |-> "adaptive", value |-> 0])
       ELSE Produced([gray EXCEPT !.dtype = image.dtype],
                     [mode |-> "binary",
                      value |-> IF threshold = <<>> THEN Midpoint ELSE threshold[1]])

\* a contour image allocated with rows and columns exchanged
ImageProcessor_find_contours_Transposed(image) ==
    IF image.dtype # "uint8" THEN Failed("cv2.error")
    ELSE Produced([image EXCEPT !.h = image.w, !.w = image.h], NoThreshold)

\* morphology keeps shape and type; findContours takes 8-bit single-channel input
\* and the contour image is zeros_like(image)
ImageProcessor_find_contours(image) ==
    IF image.dtype # "uint8" THEN Failed("cv2.error") ELSE Produced(image, NoThreshold)

ShapeKwargs ==
    [threshold : {<<>>, <<50>>}, method : {<<>>, <<"otsu">>, <<"binary">>}]

MaskGenerator_generate_contour_mask(image, threshold) ==
    LET b == ImageProcessor_binarize(image, threshold, "binary")
    IN IF b.raised # "none" THEN b
       ELSE LET c == ImageProcessor_find_contours(b.raster)
            IN IF c.raised # "none" THEN c ELSE Produced(c.raster, b.threshold)

\* normalize(image, np.uint8) of a 16-bit array keeps its shape
Normalized(image) == IF image.dtype = "uint16" THEN [image EXCEPT !.dtype = "uint8"] ELSE image

MaskGenerator_generate_intensity_mask(image, kw) ==
    ImageProcessor_binarize(Normalized(image), kw.threshold, KwGet(kw.method, "otsu"))

MaskGenerator_generate_adaptive_mask(image) ==
    ImageProcessor_binarize(Gray(Normalized(image)), <<>>, "adaptive")

\* HoughCircles takes 8-bit input; `found` tells whether it returned any circle
MaskGenerator_generate_visium_mask(image, kw, found) ==
    LET gray == Gray(image)
    IN IF gray.dtype # "uint8" THEN Failed("cv2.error")
       ELSE IF ~found
            THEN MaskGenerator_generate_contour_mask(
                     image, <<KwGet(kw.threshold, 10)>>)
            ELSE Produced([gray EXCEPT !.dtype = "uint8"], NoThreshold)

MaskTypes == {"visium", "contour", "intensity", "adaptive", "polygon"}
MaskGenerator_generate_mask(image, mask_type, kw, found) ==
    CASE mask_type = "visium" -> MaskGenerator_generate_visium_mask(image, kw, found)
      [] mask_type = "contour" ->
            MaskGenerator_generate_contour_mask(image, <<KwGet(kw.threshold, 10)>>)
      [] mask_type = "intensity" -> MaskGenerator_generate_intensity_mask(image, kw)
      [] mask_type = "adaptive" -> MaskGenerator_generate_adaptive_mask(image)
      [] OTHER -> Failed("ValueError")

\* the Xenium adapter on a container whose pages are `planes`: the polygon mask is
\* np.zeros of the height and width of page 0, the intensity mask is the threshold
\* of the requested page
PlaneLists == [1..2 -> {p \in Rasters : p.depth = 1}]
XeniumData_mask_raster(planes, polygon, channel) ==
    IF polygon THEN Raster(planes[1].h, planes[1].w, 1, "uint8")
    ELSE [planes[channel + 1] EXCEPT !.dtype = "uint8"]

\* cvRound of n / d for n >= 0 and d > 0: to the nearest integer, a half to the even one
Round(n, d) ==
    LET q == n \div d
        r == n % d
    IN IF 2 * r < d THEN q
       ELSE IF 2 * r > d THEN q + 1
       ELSE IF q % 2 = 0 THEN q ELSE q + 1

Scales == {Ratio(0, 1), Ratio(1, 2), Ratio(1, 1), Ratio(3, 2), Ratio(2, 1)}
Angles == {0, 45, 90, 180}
Pivots == {<<>>, <<0, 0>>, <<1, 5>>}
Shifts == {-1, 0, 5}

\* cv2.resize(image, None, fx=scale, fy=scale): the output size is the rounded
\* scaled size, and an empty output is an error
ImageProcessor_resize(image, scale) ==
    LET h == Round(image.h * scale.num, scale.den)
        w == Round(image.w * scale.num, scale.den)
    IN IF h = 0 \/ w = 0 THEN Failed("cv2.error")
       ELSE Produced([image EXCEPT !.h = h, !.w = w], NoThreshold)

\* a rotation that hands warpAffine (h, w) as its (width, height)
ImageProcessor_rotate_SizeTransposed(image, angle, center) ==
    Produced([image EXCEPT !.h = image.w, !.w = image.h], NoThreshold)

\* warpAffine(image, M, (w, h)) returns h rows of w columns
ImageProcessor_rotate(image, angle, center) == Produced(image, NoThreshold)
ImageProcessor_shift(image, dx, dy) == Produced(image, NoThreshold)

NoArgs ==
    [mask_type |-> "none", kw |-> [threshold |-> <<>>, method |-> <<>>], found |-> FALSE,
     scale |-> One, angle |-> 0, center |-> <<>>, dx |-> 0, dy |-> 0,
     planes |-> <<>>, polygon |-> FALSE, channel |-> 0]

NoInput ==
    [op |-> "none", mask1 |-> NoMask, mask2 |-> NoMask, image |-> NoImage,
     circles |-> NoCircles, min_distance |-> 0, raster |-> NoRaster, args |-> NoArgs]
NoOutput == [op |-> "none", value |-> One, image |-> NoImage, circles |-> NoCircles,
             stats |-> NoStats, made |-> Failed("none")]
ProcessorIdle == input = NoInput /\ output = NoOutput

Iou ==
    /\ input.op = "iou" /\ output = NoOutput
    /\ output' = [NoOutput EXCEPT !.op = "iou",
                                  !.value = ImageProcessor_iou(input.mask1, input.mask2)]
    /\ UNCHANGED <<input, dsVars, rsVars, appVars>>

Normalize(cast) ==
    /\ input.op = "normalize" /\ output = NoOutput
    /\ output' = [NoOutput EXCEPT !.op = "normalize",
                                  !.image = ImageProcessor_normalize(input.image, cast)]
    /\ UNCHANGED <<input, dsVars, rsVars, appVars>>

FilterCirclesByDistance(arith) ==
    /\ input.op = "filter_circles_by_distance" /\ output = NoOutput
    /\ output' = [NoOutput EXCEPT
                    !.op = "filter_circles_by_distance",
                    !.circles = CircleDetector_filter_circles_by_distance(
                                    input.circles, input.min_distance, arith)]
    /\ UNCHANGED <<input, dsVars, rsVars, appVars>>

GetCircleStatistics ==
    /\ input.op = "get_circle_statistics" /\ output = NoOutput
    /\ output' = [NoOutput EXCEPT
                    !.op = "get_circle_statistics",
                    !.stats = CircleDetector_get_circle_statistics(input.circles)]
    /\ UNCHANGED <<input, dsVars, rsVars, appVars>>

CirclesNext ==
    \/ \E arith \in Arithmetics : FilterCirclesByDistance(arith)
    \/ GetCircleStatistics

GenerateMaskOfImage ==
    /\ input.op = "generate_mask" /\ output = NoOutput
    /\ output' = [NoOutput EXCEPT
                    !.op = "generate_mask",
                    !.made = MaskGenerator_generate_mask(
                                 input.raster, input.args.mask_type, input.args.kw,
                                 input.args.found)]
    /\ UNCHANGED <<input, dsVars, rsVars, appVars>>

GenerateMaskOfPlanes ==
    /\ input.op = "xenium_mask" /\ output = NoOutput
    /\ output' = [NoOutput EXCEPT
                    !.op = "xenium_mask",
                    !.made = Produced(XeniumData_mask_raster(
                                          input.args.planes, input.args.polygon,
                                          input.args.channel),
                                      NoThreshold)]
    /\ UNCHANGED <<input, dsVars, rsVars, appVars>>

Resize ==
    /\ input.op = "resize" /\ output = NoOutput
    /\ output' = [NoOutput EXCEPT !.op = "resize",
                                  !.made = ImageProcessor_resize(input.raster, input.args.scale)]
    /\ UNCHANGED <<input, dsVars, rsVars, appVars>>

Rotate ==
    /\ input.op = "rotate" /\ output = NoOutput
    /\ output' = [NoOutput EXCEPT
                    !.op = "rotate",
                    !.made = ImageProcessor_rotate(input.raster, input.args.angle,
                                                   input.args.center)]
    /\ UNCHANGED <<input, dsVars, rsVars, appVars>>

Shift ==
    /\ input.op = "shift" /\ output = NoOutput
    /\ output' = [NoOutput EXCEPT
                    !.op = "shift",
                    !.made = ImageProcessor_shift(input.raster, input.args.dx, input.args.dy)]
    /\ UNCHANGED <<input, dsVars, rsVars, appVars>>

ShapesNext ==
    \/ GenerateMaskOfImage
    \/ GenerateMaskOfPlanes
    \/ Resize
    \/ Rotate
    \/ Shift

ProcessorNext ==
    \/ Iou
    \/ \E cast \in Casts : Normalize(cast)

(***************************************************************************)
(* Specifications.                                                         *)
(***************************************************************************)
NoTarget ==
    [exists |-> FALSE, kind |-> "none", name |-> Name(FALSE, ""), spatial |-> FALSE,
     listing |-> <<>>]

(***************************************************************************)
(* Session state of the application (streamlit_utils/state_manager.py).    *)
(* A key of st.session_state is <<>> when absent and <<v>> when present.   *)
(***************************************************************************)
EmptySession == [workflow_step |-> <<>>, project_name |-> <<>>, uploaded_files |-> <<>>]
StepArgs == -1..7
ProjectNames == {"", "Test"}

NoCalled == [op |-> "none", arg |-> <<>>, raised |-> "none", before |-> EmptySession]
Called(op, arg, raised, before) ==
    [op |-> op, arg |-> arg, raised |-> raised, before |-> before]

\* each key is initialised only when it does not exist
init_session_state(s) ==
    [workflow_step |-> IF s.workflow_step = <<>> THEN <<0>> ELSE s.workflow_step,
     project_name |-> IF s.project_name = <<>> THEN <<"">> ELSE s.project_name,
     uploaded_files |-> IF s.uploaded_files = <<>> THEN <<{}>> ELSE s.uploaded_files]

get_workflow_step(s) == KwGet(s.workflow_step, 0)
get_project_name(s) == KwGet(s.project_name, "")

\* a setter that stores the step before it checks the range
set_workflow_step_StoreThenCheck(s, step) ==
    [raised |-> IF 0 <= step /\ step <= 6 THEN "none" ELSE "ValueError",
     state |-> [s EXCEPT !.workflow_step = <<step>>]]

set_workflow_step(s, step) ==
    IF 0 <= step /\ step <= 6
    THEN [raised |-> "none", state |-> [s EXCEPT !.workflow_step = <<step>>]]
    ELSE [raised |-> "ValueError", state |-> s]

set_project_name(s, name) == [s EXCEPT !.project_name = <<name>>]

\* uploaded_files[key] = file_data raises when the dictionary was never initialised
add_uploaded_file(s, key) ==
    IF s.uploaded_files = <<>>
    THEN [raised |-> "AttributeError", state |-> s]
    ELSE [raised |-> "none",
          state |-> [s EXCEPT !.uploaded_files = <<s.uploaded_files[1] \cup {key}>>]]

\* every key is deleted, then the defaults are initialised
reset_session_state(s) == init_session_state(EmptySession)

reset_workflow(s) == [s EXCEPT !.workflow_step = <<0>>, !.uploaded_files = <<{}>>]

InitSessionState ==
    /\ session' = init_session_state(session)
    /\ called' = Called("init_session_state", <<>>, "none", session)
    /\ UNCHANGED <<DEFAULT_PARAMETERS, loaders, dsVars, rsVars, ipVars>>

SetWorkflowStep(step) ==
    LET r == set_workflow_step(session, step)
    IN /\ session' = r.state
       /\ called' = Called("set_workflow_step", <<step>>, r.raised, session)
       /\ UNCHANGED <<DEFAULT_PARAMETERS, loaders, dsVars, rsVars, ipVars>>

SetProjectName(name) ==
    /\ session' = set_project_name(session, name)
    /\ called' = Called("set_project_name", <<name>>, "none", session)
    /\ UNCHANGED <<DEFAULT_PARAMETERS, loaders, dsVars, rsVars, ipVars>>

AddUploadedFile(key) ==
    LET r == add_uploaded_file(session, key)
    IN /\ session' = r.state
       /\ called' = Called("add_uploaded_file", <<key>>, r.raised, session)
       /\ UNCHANGED <<DEFAULT_PARAMETERS, loaders, dsVars, rsVars, ipVars>>

ResetSessionState ==
    /\ session' = reset_session_state(session)
    /\ called' = Called("reset_session_state", <<>>, "none", session)
    /\ UNCHANGED <<DEFAULT_PARAMETERS, loaders, dsVars, rsVars, ipVars>>

ResetWorkflow ==
    /\ session' = reset_workflow(session)
    /\ called' = Called("reset_workflow", <<>>, "none", session)
    /\ UNCHANGED <<DEFAULT_PARAMETERS, loaders, dsVars, rsVars, ipVars>>

SessionNext ==
    \/ InitSessionState
    \/ \E step \in StepArgs : SetWorkflowStep(step)
    \/ \E name \in ProjectNames : SetProjectName(name)
    \/ AddUploadedFile("he")
    \/ ResetSessionState
    \/ ResetWorkflow

(***************************************************************************)
(* Configuration (config/defaults.py, config/config_loader.py).            *)
(* DEFAULT_PARAMETERS maps a section to its nested dictionary; a loader's  *)
(* config maps a section to the dictionary object it refers to.            *)
(***************************************************************************)
Sections == {"alignment", "xenium"}
Leaves == {"step", "channel"}
LeafValues == {"shipped", "edited"}
Shipped == [s \in Sections |-> [l \in Leaves |-> "shipped"]]
LoaderIds == 1..2

\* a reference to the nested dictionary of the module-level defaults
Ref(section) == [owner |-> "DEFAULT_PARAMETERS", section |-> section]

\* DEFAULT_PARAMETERS.copy(): a new top-level dictionary whose values are the same
\* nested dictionary objects
get_default_config == [sections |-> [s \in Sections |-> Ref(s)], debug_mode |-> <<>>]

\* a key is <<top>> or <<section, leaf>>
ConfigKeys == {<<"debug_mode">>} \cup {<<s, l>> : s \in Sections, l \in Leaves}

ConfigLoader_get(config, defaults, key) ==
    IF Len(key) = 1 THEN config.debug_mode
    ELSE <<defaults[config.sections[key[1]].section][key[2]]>>

\* what get(key) returned on the configuration as shipped
ShippedValue(key) == IF Len(key) = 1 THEN <<>> ELSE <<Shipped[key[1]][key[2]]>>

\* set(key, value): walks to the innermost dictionary and assigns there
ConfigLoader_set(config, defaults, key, value) ==
    IF Len(key) = 1
    THEN [config |-> [config EXCEPT !.debug_mode = <<value>>], defaults |-> defaults]
    ELSE [config |-> config,
          defaults |-> [defaults EXCEPT ![config.sections[key[1]].section][key[2]] = value]]

\* load_yaml / load_json: _deep_update of config with the parsed document, which
\* here holds one key; an empty document changes nothing
Documents == {<<>>} \cup {<<k, v>> : k \in ConfigKeys, v \in LeafValues}
ConfigLoader_load(config, defaults, doc) ==
    IF doc = <<>> THEN [config |-> config, defaults |-> defaults]
    ELSE ConfigLoader_set(config, defaults, doc[1], doc[2])

Set(i, key, value) ==
    LET r == ConfigLoader_set(loaders[i], DEFAULT_PARAMETERS, key, value)
    IN /\ loaders' = [loaders EXCEPT ![i] = r.config]
       /\ DEFAULT_PARAMETERS' = r.defaults
       /\ called' = Called("set", <<i, key, value>>, "none", EmptySession)
       /\ UNCHANGED <<session, dsVars, rsVars, ipVars>>

Load(i, doc) ==
    LET r == ConfigLoader_load(loaders[i], DEFAULT_PARAMETERS, doc)
    IN /\ loaders' = [loaders EXCEPT ![i] = r.config]
       /\ DEFAULT_PARAMETERS' = r.defaults
       /\ called' = Called("load", <<i, doc>>, "none", EmptySession)
       /\ UNCHANGED <<session, dsVars, rsVars, ipVars>>

ResetToDefaults(i) ==
    /\ loaders' = [loaders EXCEPT ![i] = get_default_config]
    /\ called' = Called("reset_to_defaults", <<i>>, "none", EmptySession)
    /\ UNCHANGED <<DEFAULT_PARAMETERS, session, dsVars, rsVars, ipVars>>

ConfigNext ==
    \/ \E i \in LoaderIds, key \in ConfigKeys, value \in LeafValues : Set(i, key, value)
    \/ \E i \in LoaderIds, doc \in Documents : Load(i, doc)
    \/ \E i \in LoaderIds : ResetToDefaults(i)

AppIdle ==
    /\ session = EmptySession
    /\ DEFAULT_PARAMETERS = Shipped
    /\ loaders = [i \in LoaderIds |-> get_default_config]
    /\ called = NoCalled

ResolverIdle == target = NoTarget /\ created = NoOutcome /\ detected = NoOutcome

NoDisk ==
    [primary |-> "absent", cells |-> "absent", boundaries |-> "absent", nucleus |-> "absent",
     transcripts |-> "absent", panel |-> "absent", metrics |-> "absent", rows |-> <<>>,
     pages |-> DefaultPages, xres |-> <<>>, yres |-> <<>>, scale |-> NoScale]

DatasetIdle ==
    /\ variant = "visium" /\ tifffile = TRUE /\ disk = NoDisk
    /\ pc = "idle" /\ obj = SpatialData_init("none") /\ last = NoCall

\* every combination of companion statuses; the boundary table holds one valid row
XeniumDisks ==
    { [primary |-> p, cells |-> c, boundaries |-> b, nucleus |-> n, transcripts |-> t,
       panel |-> g, metrics |-> m, rows |-> IF b = "ok" THEN <<"valid">> ELSE <<>>,
       pages |-> DefaultPages, xres |-> <<>>, yres |-> <<>>, scale |-> NoScale] :
        p \in PrimaryStatus, c \in TableStatus, b \in TableStatus, n \in TableStatus,
        t \in TableStatus, g \in PanelStatus, m \in MetricsStatus }

\* the other adapters read no companion file
PlainDisks == { [NoDisk EXCEPT !.primary = p] : p \in PrimaryStatus }

\* boundary tables of every shape up to MaxRows rows under a parseable container;
\* the cell and transcript tables are present or absent together, which gives both tiers
MaskDisks ==
    { [primary |-> "ok", cells |-> c, boundaries |-> b, nucleus |-> n, transcripts |-> c,
       panel |-> "absent", metrics |-> "absent", rows |-> r,
       pages |-> DefaultPages, xres |-> <<>>, yres |-> <<>>, scale |-> NoScale] :
        c \in {"absent", "ok"}, b \in TableStatus, n \in {"absent", "fail"},
        r \in SeqsUpTo(RowKinds, MaxRows) }

Init ==
    /\ variant \in Variants
    /\ tifffile \in BOOLEAN
    /\ disk \in (IF variant = "xenium" THEN XeniumDisks ELSE PlainDisks)
    /\ pc = "new"
    /\ obj = SpatialData_init("none")
    /\ last = NoCall
    /\ ResolverIdle
    /\ ProcessorIdle
    /\ AppIdle

Next == CacheNext

\* construction over every combination of companion files, then the cache calls
Spec == Init /\ [][Next]_vars

InitMask ==
    /\ variant \in Variants
    /\ tifffile = TRUE
    /\ disk \in (IF variant = "xenium"
                 THEN {d \in MaskDisks : d.boundaries = "ok" \/ d.rows = <<>>}
                 ELSE PlainDisks)
    /\ pc = "new"
    /\ obj = SpatialData_init("none")
    /\ last = NoCall
    /\ ResolverIdle
    /\ ProcessorIdle
    /\ AppIdle

\* every public call, over boundary tables of every shape
SpecMask == InitMask /\ [][DatasetNext]_vars

InitResolver ==
    /\ target \in Targets
    /\ created = NoOutcome
    /\ detected = NoOutcome
    /\ DatasetIdle
    /\ ProcessorIdle
    /\ AppIdle

SpecResolver == InitResolver /\ [][ResolverNext]_vars

\* a Xenium directory whose image parses, with some or all of its companions
FrameDisks ==
    { [NoDisk EXCEPT !.primary = "ok", !.cells = c, !.boundaries = c, !.transcripts = t,
                     !.panel = t, !.metrics = g,
                     !.rows = IF c = "ok" THEN <<"valid">> ELSE <<>>] :
        c \in {"absent", "ok"}, t \in {"absent", "ok"}, g \in {"absent", "ok"} }

FrameKwargs == {kw \in Kwargs : kw.channel = <<>> /\ kw.threshold = <<>>}

InitFrame ==
    /\ variant = "xenium"
    /\ tifffile = TRUE
    /\ disk \in FrameDisks
    /\ pc = "new"
    /\ obj = SpatialData_init("none")
    /\ last = NoCall
    /\ ResolverIdle
    /\ ProcessorIdle
    /\ AppIdle

ReadNext ==
    \/ GetMetadata
    \/ GetResolution
    \/ GetChannels

FrameNext ==
    \/ CacheNext
    \/ \E kw \in FrameKwargs : GenerateMask(kw)
    \/ ReadNext
    \/ Validate
    \/ GetTierInfo
    \/ \E a \in Accessors : Accessor(a)
    \/ \E f \in CompanionFiles : DiskChange(f)

\* every public call of a Xenium dataset while its companion files come and go
SpecFrame == InitFrame /\ [][FrameNext]_vars

\* page descriptions, resolution tags and scale factors of every shape
MetaDisks(v) ==
    CASE v = "visium" -> { [NoDisk EXCEPT !.primary = "ok", !.scale = s] : s \in ScaleFiles }
      [] v = "phenocycler" ->
            { [NoDisk EXCEPT !.primary = "ok", !.pages = p] :
                p \in SeqsUpTo(ScanPages, NumPages) }
      [] v = "ometiff" ->
            { [NoDisk EXCEPT !.primary = "ok", !.pages = p, !.xres = x, !.yres = y] :
                p \in SeqsUpTo(PlainPages, NumPages), x \in TagValues, y \in TagValues }
      [] v = "xenium" ->
            { [NoDisk EXCEPT !.primary = "ok", !.pages = p, !.xres = x, !.yres = y,
                             !.panel = g, !.metrics = g] :
                p \in SeqsUpTo(PlainPages, NumPages), x \in TagValues, y \in TagValues,
                g \in {"absent", "ok"} }

InitMeta ==
    /\ variant \in Variants
    /\ tifffile = TRUE
    /\ disk \in MetaDisks(variant)
    /\ pc = "new"
    /\ obj = SpatialData_init("none")
    /\ last = NoCall
    /\ ResolverIdle
    /\ ProcessorIdle
    /\ AppIdle

MetaNext ==
    \/ Construct
    \/ ReadNext
    \/ \E key \in EditKeys : CallerEdits(key)

\* construction over every shape of metadata, then the metadata calls
SpecMeta == InitMeta /\ [][MetaNext]_vars

InitProcessor ==
    /\ input \in { [NoInput EXCEPT !.op = "iou", !.mask1 = a, !.mask2 = b] :
                     a \in Masks, b \in Masks }
               \cup { [NoInput EXCEPT !.op = "normalize", !.image = i] : i \in Images }
    /\ output = NoOutput
    /\ DatasetIdle
    /\ ResolverIdle
    /\ AppIdle

\* the raster primitives applied to every small mask and image
SpecProcessor == InitProcessor /\ [][ProcessorNext]_vars

InitCircles ==
    /\ input \in { [NoInput EXCEPT !.op = "filter_circles_by_distance", !.circles = c,
                                   !.min_distance = m] :
                     c \in CircleArrays, m \in Distances }
               \cup { [NoInput EXCEPT !.op = "get_circle_statistics", !.circles = c] :
                        c \in CircleArrays }
    /\ output = NoOutput
    /\ DatasetIdle
    /\ ResolverIdle
    /\ AppIdle

\* the circle utilities applied to every short array of circles
SpecCircles == InitCircles /\ [][CirclesNext]_vars

ShapeInputs ==
    { [NoInput EXCEPT !.op = "generate_mask", !.raster = r,
                      !.args = [NoArgs EXCEPT !.mask_type = t, !.kw = kw, !.found = f]] :
        r \in Rasters, t \in MaskTypes, kw \in ShapeKwargs, f \in BOOLEAN }
    \cup { [NoInput EXCEPT !.op = "xenium_mask",
                           !.args = [NoArgs EXCEPT !.planes = p, !.polygon = g,
                                                   !.channel = c]] :
             p \in PlaneLists, g \in BOOLEAN, c \in 0..1 }
    \cup { [NoInput EXCEPT !.op = "resize", !.raster = r,
                           !.args = [NoArgs EXCEPT !.scale = s]] :
             r \in Rasters, s \in Scales }
    \cup { [NoInput EXCEPT !.op = "rotate", !.raster = r,
                           !.args = [NoArgs EXCEPT !.angle = a, !.center = c]] :
             r \in Rasters, a \in Angles, c \in Pivots }
    \cup { [NoInput EXCEPT !.op = "shift", !.raster = r,
                           !.args = [NoArgs EXCEPT !.dx = x, !.dy = y]] :
             r \in Rasters, x \in Shifts, y \in Shifts }

InitShapes ==
    /\ input \in ShapeInputs
    /\ output = NoOutput
    /\ DatasetIdle
    /\ ResolverIdle
    /\ AppIdle

\* mask generation and the geometric transforms, by shape
SpecShapes == InitShapes /\ [][ShapesNext]_vars

InitApp ==
    /\ AppIdle
    /\ DatasetIdle
    /\ ResolverIdle
    /\ ProcessorIdle

\* the session-state functions called in any order on a fresh session
SpecSession == InitApp /\ [][SessionNext]_vars

\* two ConfigLoader instances constructed without a file, then used in any order
SpecConfig == InitApp /\ [][ConfigNext]_vars

(***************************************************************************)
(* Properties.                                                             *)
(***************************************************************************)
\* What is on disk, read off independently of the loaders: a companion "loads
\* without error" when its load step in _detect_tier raises nothing.  The boundary
\* step reads cell_boundaries.parquet and, when present, nucleus_boundaries.parquet.
CellsLoad(d) == d.cells = "ok"
BoundariesLoad(d) == d.boundaries = "ok" /\ d.nucleus \in {"absent", "ok"}
TranscriptsLoad(d) == d.transcripts = "ok"
GenePanelLoads(d) == d.panel = "ok"
MetricsLoad(d) == d.metrics \in {"ok", "empty"}

Constructed(v) == variant = v /\ pc = "ready"

C3_PrimaryFailureIsFatal ==
    (variant \in {"xenium", "ometiff", "phenocycler"} /\ pc # "new" /\ disk.primary # "ok")
        => pc = "failed"

\* C4: a plane returned by load_image(c) is cached for channel c, and after
\* clear_cache() no cached plane remains in the instance.
C4_ClearCacheEvictsPlanes ==
    /\ (pc = "ready" /\ last.op = "load_image" /\ last.raised = "none") =>
           IF variant = "visium" THEN obj.image_cache
           ELSE last.ret.channel \in obj.channel_data
    /\ (pc = "ready" /\ last.op = "clear_cache") =>
           (obj.channel_data = {} /\ ~obj.image_cache)

\* C5: the mask generate_mask returned is held in the instance's mask cache, and
\* after clear_cache() the mask cache is empty.
C5_MaskIsCached ==
    /\ (last.op = "generate_mask" /\ last.raised = "none") => obj.mask_cache = last.ret
    /\ last.op = "clear_cache" => obj.mask_cache = NoRet

AutoRequested == last.args.method \in {<<>>, <<"auto">>}
FullWithBoundaries == obj.tier = 2 /\ obj.has_boundaries

\* C6: XeniumData.generate_mask with method 'auto' or no method runs the polygon
\* rasterizer exactly when tier is Full and boundary data is present; in every
\* other state it runs intensity thresholding only and returns its mask.
C6_AutoSelectsByTier ==
    (variant = "xenium" /\ last.op = "generate_mask" /\ AutoRequested) =>
        /\ last.polygon <=> FullWithBoundaries
        /\ ~FullWithBoundaries =>
              /\ last.intensity
              /\ last.raised = "none" => last.ret.method = "intensity"

C6_Witness ==
    /\ variant = "xenium"
    /\ last.op = "generate_mask"
    /\ last.args.method = <<>>
    /\ FullWithBoundaries
    /\ last.polygon
    /\ last.ret.method = "polygon"

\* C7: generate_mask(method='polygon') on a Minimal-tier XeniumData with a valid
\* channel returns the intensity-threshold mask without raising, and issues a
\* warning for the degradation.
C7_PolygonOnMinimalWarns ==
    ( /\ variant = "xenium"
      /\ last.op = "generate_mask"
      /\ last.args.method = <<"polygon">>
      /\ obj.tier = 1
      /\ KwGet(last.args.channel, 0) < NumPages ) =>
        /\ last.raised = "none"
        /\ last.ret.method = "intensity"
        /\ last.warnings # {}

LoadedRows == obj.cell_boundaries.rows
ValidRows == {i \in 1..Len(LoadedRows) : LoadedRows[i] = "valid"}
Unconvertible == {i \in 1..Len(LoadedRows) : LoadedRows[i] \in {"nonnumeric", "empty"}}
PolygonCallReturned ==
    variant = "xenium" /\ last.op = "generate_mask" /\ last.polygon /\ last.raised = "none"

\* C8 as stated: whatever rows are malformed, the polygon call returns the canvas
\* with the filled polygon of every valid row.
C8_EveryMalformedRowSkipped ==
    PolygonCallReturned => last.ret = Mask("polygon", 0, "none", ValidRows)

\* C8, amended: a row whose vertex value is not a list is skipped wherever it
\* stands and the polygon mask of exactly the valid rows is returned, provided no
\* row holds a non-numeric or empty vertex list; one such row anywhere in the
\* table makes the call warn and return the intensity-threshold mask instead.
C8_NonListSkippedElseFallback ==
    PolygonCallReturned =>
        IF Unconvertible = {}
        THEN last.ret = Mask("polygon", 0, "none", ValidRows) /\ last.warnings = {}
        ELSE /\ last.ret = Mask("intensity", KwGet(last.args.channel, 0),
                                ThresholdMode(last.args), {})
             /\ last.warnings = {"polygon_error"}

C8_Witness ==
    /\ PolygonCallReturned
    /\ Len(LoadedRows) = 2
    /\ LoadedRows[1] = "valid"
    /\ LoadedRows[2] = "empty"
    /\ last.ret.method = "intensity"

\* The variant the claimed priority order gives a directory
HasExt(t, exts) == \E i \in 1..Len(t.listing) : t.listing[i].ext \in exts
DirectoryPriority(t) ==
    IF t.spatial THEN "visium"
    ELSE IF HasExt(t, {"qptiff", "qptif"}) THEN "phenocycler"
    ELSE IF HasExt(t, {"tiff", "tif"}) THEN "ometiff"
    ELSE "none"

Agrees(outcome, v) ==
    IF v = "none" THEN outcome.kind = "error" /\ outcome.error = "ValueError"
    ELSE outcome.kind \in {"adapter", "modality"} /\ outcome.variant = v

\* C9: for a directory and no hint, create_spatial_data and detect_modality both
\* decide by: 'spatial' subdirectory, else a .qptiff/.qptif file, else a
\* .tif/.tiff file, else the unsupported-format error.
C9_DirectoryPriority ==
    (target.exists /\ target.kind = "dir") =>
        /\ detected.kind # "none" => Agrees(detected, DirectoryPriority(target))
        /\ (created.kind # "none" /\ created.hint = <<>>)
              => Agrees(created, DirectoryPriority(target))

ExtensionVariant(e) ==
    CASE e \in {"qptiff", "qptif"} -> "phenocycler"
      [] e \in {"tiff", "tif"} -> "ometiff"
      [] e \in {"png", "jpg", "jpeg"} -> "visium"
      [] OTHER -> "unspecified"

\* C10: with no hint a single file is resolved by its extension alone, whatever
\* its directory holds: .qptiff/.qptif is phenocycler, .tif/.tiff is ometiff,
\* .png/.jpg/.jpeg is visium, and the adapter is built on the file itself.
C10_FileByExtension ==
    (target.exists /\ target.kind = "file"
       /\ ExtensionVariant(target.name.ext) # "unspecified") =>
        /\ detected.kind # "none" => detected = Modality(ExtensionVariant(target.name.ext))
        /\ (created.kind # "none" /\ created.hint = <<>>)
              => created = Adapter(ExtensionVariant(target.name.ext), <<>>, <<>>)

C10_Witness ==
    /\ target.kind = "file"
    /\ target.name.ext = "qptiff"
    /\ target.spatial
    /\ Len(target.listing) = MaxFiles
    /\ detected = Modality("phenocycler")
    /\ created = Adapter("phenocycler", <<>>, <<>>)

\* C11: for a path that does not exist, create_spatial_data raises
\* FileNotFoundError whatever the hint (absent, known or unknown) and selects no
\* adapter, and detect_modality raises FileNotFoundError.
C11_MissingPathComesFirst ==
    ~target.exists =>
        /\ created.kind # "none" => created = Failure("FileNotFoundError", created.hint)
        /\ detected.kind # "none" => detected = Failure("FileNotFoundError", <<>>)

C11_Witness ==
    /\ ~target.exists
    /\ created = Failure("FileNotFoundError", <<"invalid">>)
    /\ detected = Failure("FileNotFoundError", <<>>)

KnownTags == {"visium", "xenium", "phenocycler", "ometiff"}
HintGiven == target.exists /\ created.kind # "none" /\ created.hint # <<>>

TierFields(o) ==
    <<o.tier, o.has_cells, o.has_boundaries, o.has_transcripts, o.has_gene_panel,
      o.has_metrics>>
ReportedFields(i) ==
    <<i.tier, i.has_cells, i.has_boundaries, i.has_transcripts, i.has_gene_panel,
      i.has_metrics>>
C14_TierFixedAtConstruction ==
    [][(variant = "xenium" /\ pc = "ready") =>
          /\ TierFields(obj') = TierFields(obj)
          /\ last'.op = "get_tier_info" => ReportedFields(last'.info) = TierFields(obj)]_vars

\* a report made after the cell table and the metrics file were removed from disk
C14_Witness ==
    /\ variant = "xenium" /\ pc = "ready" /\ last.op = "get_tier_info"
    /\ disk.cells = "absent" /\ disk.metrics = "absent" /\ disk.panel = "ok"
    /\ last.info.has_cells /\ last.info.has_metrics /\ ~last.info.has_gene_panel
    /\ obj.channel_data # {}

\* C15: the names get_channels() returns are pairwise different, and none of them is
\* the missing text of an empty name element.
Unique(s) == \A i, j \in DOMAIN s : i # j => s[i] # s[j]
C15_ChannelNamesUnique ==
    (pc = "ready" /\ last.op = "get_channels" /\ variant # "visium") =>
        /\ Unique(last.names)
        /\ \A k \in DOMAIN last.names : last.names[k] # NoneText

\* C16: whenever the metadata of a constructed dataset carries num_channels, the list
\* get_channels() returns has exactly that many entries.
C16_ChannelCountMatches ==
    (pc = "ready" /\ last.op = "get_channels"
        /\ GetMetadataOf(variant, obj).num_channels # <<>>) =>
        Len(last.names) = GetMetadataOf(variant, obj).num_channels[1]

\* C17: get_resolution() of a constructed dataset is greater than zero, and is 1.0
\* when the files carry no resolution information.
NoResolutionInfo(v, d) ==
    CASE v = "visium" -> d.scale.file # "ok"
      [] v = "phenocycler" ->
            Len(d.pages) = 0 \/ d.pages[1].xml # "parsed" \/ d.pages[1].res = NoElem
      [] v \in {"xenium", "ometiff"} -> Len(d.pages) = 0 \/ (d.xres = <<>> /\ d.yres = <<>>)
C17_ResolutionPositive ==
    (pc = "ready" /\ last.op = "get_resolution") =>
        /\ IsPositive(last.res)
        /\ NoResolutionInfo(variant, disk) => IsOne(last.res)

\* C18: get_metadata() raises nothing, and no change a caller makes to the map it
\* returned, nested values included, changes what get_metadata() returns next.
C18_SnapshotIsImmutable ==
    [][pc = "ready" =>
          /\ last'.op = "get_metadata" => last'.raised = "none"
          /\ last'.op = "edit" =>
                GetMetadataOf(variant, obj') = GetMetadataOf(variant, obj)]_vars

\* C19: iou of two 8-bit masks lies in [0, 1]; it is 1.0 for a mask with foreground
\* against itself, 0.0 for two masks with foreground that share no foreground pixel,
\* and 0.0 when neither mask has foreground inside the shared top-left region.
Foreground(m) == {p \in DOMAIN m.px : m.px[p] > 127}
SharedRegion(m1, m2) == DOMAIN m1.px \cap DOMAIN m2.px
C19_IouContract ==
    output.op = "iou" =>
        LET m1 == input.mask1
            m2 == input.mask2
            r == output.value
        IN /\ r.den > 0 /\ 0 <= r.num /\ r.num <= r.den
           /\ (m1 = m2 /\ Foreground(m1) # {}) => IsOne(r)
           /\ (Foreground(m1) # {} /\ Foreground(m2) # {}
                 /\ Foreground(m1) \cap Foreground(m2) = {}) => r.num = 0
           /\ (Foreground(m1) \cup Foreground(m2)) \cap SharedRegion(m1, m2) = {} =>
                 r = Ratio(0, 1)

\* masks of different shapes that agree on the shared region, the second with
\* foreground outside it
C19_Witness ==
    /\ output.op = "iou"
    /\ input.mask1.h # input.mask2.h /\ input.mask1.w # input.mask2.w
    /\ Foreground(input.mask1) # {} /\ Foreground(input.mask2) # {}
    /\ Foreground(input.mask2) \ SharedRegion(input.mask1, input.mask2) # {}
    /\ output.value = Ratio(1, 1)

\* C20: normalization to 8 bits sends every 16-bit pixel v to floor(v / 256) and every
\* 32-bit pixel v to floor(v / 65536), and every pixel it returns lies in 0..255.
FloorQuotient(dtype, p) == IF dtype = "uint16" THEN p.lo \div 256 ELSE p.hi
C20_NormalizeIsFloorDivision ==
    (output.op = "normalize" /\ input.image.dtype \in {"uint16", "uint32"}) =>
        \A k \in DOMAIN input.image.pixels :
            /\ output.image.pixels[k].hi = 0
            /\ output.image.pixels[k].lo \in 0..255
            /\ output.image.pixels[k].lo = FloorQuotient(input.image.dtype, input.image.pixels[k])

\* C21: filter_circles_by_distance returns the greedy first-seen-wins selection: the
\* first circle, then every later circle whose centre is at least min_distance away
\* from each circle accepted before it, in input order; with min_distance = 0 it
\* returns its input.
CentresCloserThan(c1, c2, d) ==
    (c1.x - c2.x) * (c1.x - c2.x) + (c1.y - c2.y) * (c1.y - c2.y) < d * d
RECURSIVE GreedySelection(_, _, _, _)
GreedySelection(rows, i, accepted, d) ==
    IF i > Len(rows) THEN accepted
    ELSE IF \E k \in DOMAIN accepted : CentresCloserThan(rows[i], accepted[k], d)
         THEN GreedySelection(rows, i + 1, accepted, d)
         ELSE GreedySelection(rows, i + 1, Append(accepted, rows[i]), d)
C21_GreedyFirstSeenWins ==
    (output.op = "filter_circles_by_distance" /\ ~input.circles.isNone) =>
        /\ output.circles = Rows(GreedySelection(input.circles.rows, 1, <<>>,
                                                 input.min_distance))
        /\ input.min_distance = 0 => output.circles = input.circles

\* C22: get_circle_statistics returns count, mean, min, max and standard deviation of
\* the radii for every input, all five present and zero for an empty or None input.
StatKeys == {"count", "mean_radius", "min_radius", "max_radius", "std_radius"}
C22_StatisticsAlwaysComplete ==
    output.op = "get_circle_statistics" =>
        /\ output.stats.keys = StatKeys
        /\ (input.circles.isNone \/ input.circles.rows = <<>>) =>
              /\ output.stats.count = 0
              /\ output.stats.mean_radius.num = 0
              /\ output.stats.min_radius = 0
              /\ output.stats.max_radius = 0
              /\ output.stats.std_radius_squared.num = 0

\* C23: every mask a generation method returns has the height and width of the plane
\* it was made from: the input image for the contour, intensity, adaptive and circle
\* (with contour fallback) methods, the container's base plane for the polygon method
\* and the requested plane for the adapter's intensity method
C23_MaskKeepsPlaneShape ==
    /\ (output.op = "generate_mask" /\ output.made.raised = "none") =>
           /\ output.made.raster.h = input.raster.h
           /\ output.made.raster.w = input.raster.w
           /\ output.made.raster.depth = 1
    /\ output.op = "xenium_mask" =>
           LET plane == IF input.args.polygon THEN input.args.planes[1]
                        ELSE input.args.planes[input.args.channel + 1]
           IN /\ output.made.raster.h = plane.h
              /\ output.made.raster.w = plane.w

C23_Witness ==
    /\ output.op = "generate_mask"
    /\ output.made.raised = "none"
    /\ input.args.mask_type = "visium"
    /\ ~input.args.found
    /\ input.raster.depth = 3
    /\ input.raster.h # input.raster.w

\* C24: with no method option, the intensity mask is thresholded by Otsu when no
\* threshold option is supplied and by a fixed threshold at the supplied value when one is
C24_ThresholdOptionSelectsFixed ==
    (/\ output.op = "generate_mask"
     /\ input.args.mask_type = "intensity"
     /\ input.args.kw.method = <<>>
     /\ output.made.raised = "none") =>
        IF input.args.kw.threshold = <<>>
        THEN output.made.threshold.mode = "otsu"
        ELSE /\ output.made.threshold.mode = "binary"
             /\ output.made.threshold.value = input.args.kw.threshold[1]

C26_StepStaysInRange ==
    /\ (called.op = "set_workflow_step" /\ called.arg[1] \notin 0..6) =>
           /\ called.raised = "ValueError"
           /\ session.workflow_step = called.before.workflow_step
    /\ get_workflow_step(session) \in 0..6
    /\ called.op = "reset_session_state" =>
           /\ get_workflow_step(session) = 0
           /\ get_project_name(session) = ""

C26_Witness ==
    /\ called.op = "set_workflow_step"
    /\ called.arg = <<7>>
    /\ called.before.workflow_step = <<5>>
    /\ session.workflow_step = <<5>>
    /\ session.project_name = <<"Test">>

\* C27: right after reset_to_defaults() on a loader, get(key) on it returns the value
\* the defaults were shipped with, for every top-level and every dotted key
C27_ResetRestoresShippedDefaults ==
    called.op = "reset_to_defaults" =>
        \A key \in ConfigKeys :
            ConfigLoader_get(loaders[called.arg[1]], DEFAULT_PARAMETERS, key)
                = ShippedValue(key)

\* C28: for an existing path and no hint, create_spatial_data selects a variant exactly
\* when detect_modality returns a modality, the two name the same variant, and when one
\* raises the unsupported-format error so does the other
C28_ResolversAgree ==
    (target.exists /\ created.kind # "none" /\ created.hint = <<>>
       /\ detected.kind # "none") =>
        /\ created.kind = "adapter" <=> detected.kind = "modality"
        /\ created.kind = "adapter" => created.variant = detected.variant
        /\ created.kind = "error" <=> detected.kind = "error"
        /\ created.kind = "error" => created.error = detected.error

\* C29: in a constructed XeniumData every flag is true exactly when its accessor
\* returns data
C29_FlagsAgreeWithAccessors ==
    (variant = "xenium" /\ pc = "ready") =>
        /\ obj.has_cells <=> XeniumData_get_cells_data(obj) # NoRet
        /\ obj.has_boundaries <=> XeniumData_get_cell_boundaries(obj) # NoRet
        /\ obj.has_transcripts <=> XeniumData_get_transcripts(obj) # NoRet
        /\ obj.has_gene_panel <=> XeniumData_get_gene_panel(obj) # NoRet
        /\ obj.has_metrics <=> XeniumData_get_metrics(obj) # NoRet

\* C30: for every modality list_supported_formats advertises there is an existing
\* path for which detect_modality returns it and create_spatial_data without a hint
\* constructs that variant; examined once both resolvers have answered for the
\* path in hand
C30_EveryAdvertisedModalityDetectable ==
    (created.kind # "none" /\ detected.kind # "none") =>
        \A tag \in list_supported_formats :
            \E t \in Targets :
                /\ t.exists
                /\ detect_modality(t) = Modality(tag)
                /\ create_spatial_data(t, <<>>).kind = "adapter"
                /\ create_spatial_data(t, <<>>).variant = tag

====
